---- MODULE Spec2Model ----
(***************************************************************************)
(* A model of `windowless` (src/src/lib.rs): the Rectangle geometry        *)
(* primitive (intersects, intersection) and the WindowTable (insert,       *)
(* clear, root, iter) with its recursive overlap resolver (intersections). *)
(*                                                                         *)
(* Three specifications share the module:                                  *)
(*   Spec      the WindowTable driven by arbitrary insert / clear calls;   *)
(*   SpecRect  the pure Rectangle functions applied to drawn inputs;       *)
(*   SpecSteps insert run loop iteration by loop iteration, with the       *)
(*             resolver's recursion as an explicit stack of frames.        *)
(***************************************************************************)
EXTENDS Integers, Sequences, FiniteSets, TLC

VARIABLES
    slots,      \* SlotMap storage: slot idx -> [version, next_free]
    free_head,  \* SlotMap free list head (idx of the next slot to hand out)
    windows,    \* SlotMap contents: live key -> Window
    root,       \* WindowTable.root : Option<WindowKey>
    result,     \* what the last call returned
    history,    \* every insert call since the last clear: key, rect, outcome
    selfRect,   \* SpecRect: the receiver of the Rectangle call
    otherRect,  \* SpecRect: its argument
    overlapsOut,\* SpecRect: what intersects returned
    splitOut,   \* SpecRect: what intersection returned
    pc,         \* SpecSteps: where the running insert is ("idle" between calls)
    call,       \* SpecSteps: key and rect of the running insert
    frames,     \* SpecSteps: the active calls of intersections, innermost last
    returned,   \* SpecSteps: the call of intersections that returned last
    current_rects, \* SpecSteps: insert's current_rects
    taken_rects    \* SpecSteps: insert's taken_rects

vars == <<slots, free_head, windows, root, result, history,
          selfRect, otherRect, overlapsOut, splitOut,
          pc, call, frames, returned, current_rects, taken_rects>>

stepVars == <<pc, call, frames, returned, current_rects, taken_rects>>

tableVars == <<slots, free_head, windows, root, result, history>>
rectVars  == <<selfRect, otherRect, overlapsOut, splitOut>>

(***************************************************************************)
(* Bounds of the model.                                                    *)
(***************************************************************************)
MaxCoord == 3      \* coordinates range over 0..MaxCoord
MaxWindows == 3    \* windows the table may hold at a time
MaxClears == 1     \* times one slot may be freed by clear

(***************************************************************************)
(* Option<T>                                                               *)
(***************************************************************************)
None == [tag |-> "None"]
Some(x) == [tag |-> "Some", val |-> x]
is_some(o) == o.tag = "Some"
is_none(o) == o.tag = "None"

(***************************************************************************)
(* Rectangle                                                               *)
(***************************************************************************)
Rectangle(l, t, r, b) == [left |-> l, top |-> t, right |-> r, bottom |-> b]

\* The rectangles the model draws: every rectangle of the grid with
\* left < right and top < bottom.
Rects ==
    { q \in [left : 0..MaxCoord, top : 0..MaxCoord,
              right : 0..MaxCoord, bottom : 0..MaxCoord] :
        q.left < q.right /\ q.top < q.bottom }

\* Those and the rectangles of no width or no height.
AllRects ==
    { q \in [left : 0..MaxCoord, top : 0..MaxCoord,
              right : 0..MaxCoord, bottom : 0..MaxCoord] :
        q.left <= q.right /\ q.top <= q.bottom }

max(a, b) == IF a >= b THEN a ELSE b
min(a, b) == IF a <= b THEN a ELSE b

\* Rectangle::intersects
intersects_nonstrict(self, other) ==
    /\ self.left <= other.right
    /\ self.right >= other.left
    /\ self.top <= other.bottom
    /\ self.bottom >= other.top

intersects(self, other) ==
    /\ self.left < other.right
    /\ self.right > other.left
    /\ self.top < other.bottom
    /\ self.bottom > other.top

\* The four clipping steps of Rectangle::intersection.  Each takes and returns
\* the pair (self, remainder) the function carries through its body.
clip_top(st, other) ==
    IF st.self.bottom > other.top
    THEN LET new_top == max(st.self.top, other.top)
         IN [self |-> [st.self EXCEPT !.top = new_top],
             remainder |-> IF new_top # st.self.top
                           THEN Append(st.remainder, [st.self EXCEPT !.bottom = new_top])
                           ELSE st.remainder]
    ELSE st

clip_bottom(st, other) ==
    IF st.self.top < other.bottom
    THEN LET new_bottom == min(st.self.bottom, other.bottom)
         IN [self |-> [st.self EXCEPT !.bottom = new_bottom],
             remainder |-> IF new_bottom # st.self.bottom
                           THEN Append(st.remainder, [st.self EXCEPT !.top = new_bottom])
                           ELSE st.remainder]
    ELSE st

clip_right(st, other) ==
    IF st.self.left < other.right
    THEN LET new_right == min(st.self.right, other.right)
         IN [self |-> [st.self EXCEPT !.right = new_right],
             remainder |-> IF new_right # st.self.right
                           THEN Append(st.remainder, [st.self EXCEPT !.left = new_right])
                           ELSE st.remainder]
    ELSE st

clip_left(st, other) ==
    IF st.self.right > other.left
    THEN LET new_left == max(st.self.left, other.left)
         IN [self |-> [st.self EXCEPT !.left = new_left],
             remainder |-> IF new_left # st.self.left
                           THEN Append(st.remainder, [st.self EXCEPT !.right = new_left])
                           ELSE st.remainder]
    ELSE st

\* Rectangle::intersection : Option<(Self, ArrayVec<[Self; 4]>)>
intersection(self, other) ==
    IF intersects(self, other)
    THEN None
    ELSE LET s0 == [self |-> self, remainder |-> <<>>]
             s1 == clip_top(s0, other)
             s2 == clip_bottom(s1, other)
             s3 == clip_right(s2, other)
             s4 == clip_left(s3, other)
         IN Some([rect |-> s4.self, remainder |-> s4.remainder])

(***************************************************************************)
(* Vec helpers                                                             *)
(***************************************************************************)
\* Vec::swap_remove(0): the first element is returned and the last one takes
\* its place.
swap_remove_first(v) ==
    IF Len(v) = 1 THEN <<>> ELSE <<v[Len(v)]>> \o SubSeq(v, 2, Len(v) - 1)

\* The derived Ord of a key: by slot index, then by version.
key_lt(a, b) == a.idx < b.idx \/ (a.idx = b.idx /\ a.version < b.version)

RECURSIVE sort_unstable(_)
sort_unstable(v) ==
    IF v = <<>> THEN <<>>
    ELSE LET least == CHOOSE i \in 1..Len(v) :
                          \A j \in 1..Len(v) : ~key_lt(v[j], v[i])
         IN <<v[least]>> \o
            sort_unstable(SubSeq(v, 1, least - 1) \o SubSeq(v, least + 1, Len(v)))

\* Vec::dedup: consecutive repeats are removed.
dedup_none(v) == v

RECURSIVE dedup(_)
dedup(v) ==
    IF Len(v) <= 1 THEN v
    ELSE IF v[1] = v[2] THEN dedup(Tail(v))
    ELSE <<v[1]>> \o dedup(Tail(v))

(***************************************************************************)
(* SlotMap<Key, Window>                                                    *)
(***************************************************************************)
WindowKey(i, v) == [idx |-> i, version |-> v]
Window(rect) == [rect |-> rect, parents |-> <<>>, children |-> <<>>]

\* The key SlotMap::insert hands out next: the slot at the head of the free
\* list with its version made odd, or a fresh slot of version 1.
next_key ==
    IF free_head <= Len(slots)
    THEN WindowKey(free_head, slots[free_head].version + 1)
    ELSE WindowKey(Len(slots) + 1, 1)

\* SlotMap storage after SlotMap::insert.
slots_after_insert ==
    IF free_head <= Len(slots)
    THEN [slots EXCEPT ![free_head] = [version |-> slots[free_head].version + 1,
                                       next_free |-> 0]]
    ELSE Append(slots, [version |-> 1, next_free |-> 0])

free_head_after_insert ==
    IF free_head <= Len(slots)
    THEN slots[free_head].next_free
    ELSE Len(slots) + 2

\* SlotMap::clear drains the slots in index order: each occupied slot gets
\* an even version and becomes the head of the free list.
RECURSIVE drain(_, _, _)
drain(sl, fh, cur) ==
    IF cur > Len(sl) THEN [slots |-> sl, free_head |-> fh]
    ELSE IF sl[cur].version % 2 = 1
    THEN drain([sl EXCEPT ![cur] = [version |-> sl[cur].version + 1, next_free |-> fh]],
               cur, cur + 1)
    ELSE drain(sl, fh, cur + 1)

(***************************************************************************)
(* WindowTable::intersections                                              *)
(***************************************************************************)
\* roots.iter().find_map(..): the first root whose rectangle the fragment
\* splits against.
find_map(W, roots, rect) ==
    LET hits == { i \in 1..Len(roots) : is_some(intersection(rect, W[roots[i]].rect)) }
    IN IF hits = {} THEN None
       ELSE LET first == CHOOSE i \in hits : \A j \in hits : i <= j
                split == intersection(rect, W[roots[first]].rect).val
            IN Some([intersection |-> split.rect,
                     remainder |-> split.remainder,
                     matched_root |-> roots[first]])

RECURSIVE intersections(_, _, _)
RECURSIVE intersections_while(_, _, _)

\* The worklist loop: st = [windows, rectangles, leftovers].
intersections_while(W, roots, st) ==
    IF st.rectangles = <<>> THEN st
    ELSE LET rect == st.rectangles[1]
             rest == swap_remove_first(st.rectangles)
             intersect == find_map(W, roots, rect)
         IN IF is_some(intersect)
            THEN LET m == intersect.val
                     sub == intersections(W, W[m.matched_root].children, m.intersection)
                 IN intersections_while(W, roots,
                        [windows |-> st.windows \o sub.windows \o
                                     (IF sub.leftovers THEN <<m.matched_root>> ELSE <<>>),
                         rectangles |-> rest \o m.remainder,
                         leftovers |-> st.leftovers])
            ELSE intersections_while(W, roots,
                        [windows |-> st.windows,
                         rectangles |-> rest,
                         leftovers |-> TRUE])

intersections(W, roots, rect) ==
    LET out == intersections_while(W, roots,
                   [windows |-> <<>>, rectangles |-> <<rect>>, leftovers |-> TRUE])
    IN [windows |-> dedup(sort_unstable(out.windows)), leftovers |-> out.leftovers]

(***************************************************************************)
(* WindowTable                                                             *)
(***************************************************************************)
Ok(k) == [tag |-> "Ok", val |-> k]
Err(e) == [tag |-> "Err", val |-> e]
OutsideRoot == "OutsideRoot"

no_windows == [k \in {} |-> Window(Rectangle(0, 0, 0, 0))]

\* insert's "Set children" loop: the new key is pushed onto every parent.
set_children_swapped(W, parents, key) ==
    [W EXCEPT ![key].children = @ \o parents]

RECURSIVE set_children(_, _, _)
set_children(W, parents, key) ==
    IF parents = <<>> THEN W
    ELSE set_children([W EXCEPT ![Head(parents)].children = Append(@, key)],
                      Tail(parents), key)

\* insert, "If there is no root window, set this window as the root."
root_after_insert_unset(key) == root
root_after_insert(key) == IF is_none(root) THEN Some(key) ELSE root

\* clear, "self.root = None"
root_after_clear_kept == root
root_after_clear == None

\* WindowTable::new
Init ==
    /\ slots = <<>>
    /\ free_head = 1
    /\ windows = no_windows
    /\ root = None
    /\ result = [op |-> "new"]
    /\ history = <<>>
    /\ selfRect = Rectangle(0, 0, 0, 0)
    /\ otherRect = Rectangle(0, 0, 0, 0)
    /\ overlapsOut = None
    /\ splitOut = None
    /\ pc = "idle"
    /\ call = None
    /\ frames = <<>>
    /\ returned = None
    /\ current_rects = <<>>
    /\ taken_rects = <<>>

\* WindowTable::insert.  The record is stored first; the loop that follows
\* the "Set children" loop in the source reads rectangles and writes nothing.
insert(rect) ==
    /\ Cardinality(DOMAIN windows) < MaxWindows
    /\ LET key == next_key
           stored == [k \in DOMAIN windows \cup {key} |->
                         IF k = key THEN Window(rect) ELSE windows[k]]
       IN /\ slots' = slots_after_insert
          /\ free_head' = free_head_after_insert
          /\ IF is_none(root)
             THEN /\ root' = root_after_insert(key)
                  /\ windows' = stored
                  /\ result' = [op |-> "insert", rect |-> rect, ret |-> Ok(key)]
                  /\ history' = Append(history, [key |-> key, rect |-> rect, ok |-> TRUE])
             ELSE IF intersects(rect, stored[root.val].rect)
             THEN /\ root' = root_after_insert(key)
                  /\ windows' = stored
                  /\ result' = [op |-> "insert", rect |-> rect, ret |-> Err(OutsideRoot)]
                  /\ history' = Append(history, [key |-> key, rect |-> rect, ok |-> FALSE])
             ELSE LET parents == intersections(stored, <<root.val>>, rect).windows
                  IN /\ root' = root_after_insert(key)
                     /\ windows' = set_children(stored, parents, key)
                     /\ result' = [op |-> "insert", rect |-> rect, ret |-> Ok(key)]
                     /\ history' = Append(history, [key |-> key, rect |-> rect, ok |-> TRUE])
    /\ UNCHANGED rectVars
    /\ UNCHANGED stepVars

\* WindowTable::clear
clear_root_only ==
    /\ \A i \in 1..Len(slots) : slots[i].version % 2 = 1 => slots[i].version < 2 * MaxClears
    /\ root' = None
    /\ result' = [op |-> "clear"]
    /\ history' = <<>>
    /\ UNCHANGED <<slots, free_head, windows>>
    /\ UNCHANGED rectVars
    /\ UNCHANGED stepVars

clear_noop ==
    /\ \A i \in 1..Len(slots) : slots[i].version % 2 = 1 => slots[i].version < 2 * MaxClears
    /\ result' = [op |-> "clear"]
    /\ history' = <<>>
    /\ UNCHANGED <<slots, free_head, windows, root>>
    /\ UNCHANGED rectVars
    /\ UNCHANGED stepVars

clear ==
    /\ \A i \in 1..Len(slots) : slots[i].version % 2 = 1 => slots[i].version < 2 * MaxClears
    /\ LET drained == drain(slots, free_head, 1)
       IN /\ slots' = drained.slots
          /\ free_head' = drained.free_head
    /\ windows' = no_windows
    /\ root' = root_after_clear
    /\ result' = [op |-> "clear"]
    /\ history' = <<>>
    /\ UNCHANGED rectVars
    /\ UNCHANGED stepVars

\* WindowTable::iter: the (key, rect) pairs of the occupied slots, in slot order.
RECURSIVE iter_from(_)
iter_from(cur) ==
    IF cur > Len(slots) THEN <<>>
    ELSE (IF slots[cur].version % 2 = 1
          THEN LET key == WindowKey(cur, slots[cur].version)
               IN <<[key |-> key, rect |-> windows[key].rect]>>
          ELSE <<>>) \o iter_from(cur + 1)

iter == iter_from(1)

Next ==
    \/ \E rect \in Rects : insert(rect)
    \/ clear

Spec == Init /\ [][Next]_vars

(***************************************************************************)
(* The Rectangle functions on drawn inputs                                 *)
(***************************************************************************)
InitRect ==
    /\ slots = <<>>
    /\ free_head = 1
    /\ windows = no_windows
    /\ root = None
    /\ result = [op |-> "new"]
    /\ history = <<>>
    /\ selfRect \in AllRects
    /\ otherRect \in AllRects
    /\ overlapsOut = None
    /\ splitOut = None
    /\ pc = "idle"
    /\ call = None
    /\ frames = <<>>
    /\ returned = None
    /\ current_rects = <<>>
    /\ taken_rects = <<>>

call_intersects ==
    /\ overlapsOut' = Some(intersects(selfRect, otherRect))
    /\ UNCHANGED <<selfRect, otherRect, splitOut>>
    /\ UNCHANGED tableVars
    /\ UNCHANGED stepVars

call_intersection ==
    /\ splitOut' = Some(intersection(selfRect, otherRect))
    /\ UNCHANGED <<selfRect, otherRect, overlapsOut>>
    /\ UNCHANGED tableVars
    /\ UNCHANGED stepVars

NextRect ==
    \/ call_intersects
    \/ call_intersection

SpecRect == InitRect /\ [][NextRect]_vars

(***************************************************************************)
(* insert, one loop iteration at a time                                    *)
(***************************************************************************)
\* The locals of one call of intersections(roots, rect).  pending holds the
\* matched root and the remainder while the call on its children runs.
new_frame(roots, rect) ==
    [roots |-> roots, rect |-> rect,
     windows |-> <<>>, rectangles |-> <<rect>>, leftovers |-> TRUE,
     pending |-> None]

\* core::mem::take(&mut current_rects) leaves current_rects empty.
current_rects_after_clone(v) == v
current_rects_after_take(v) == <<>>

\* insert up to the call of intersections: the record is stored, then the
\* root is set, or the root test fails, or the resolver is entered.
insert_begin(rect) ==
    /\ pc = "idle"
    /\ Cardinality(DOMAIN windows) < MaxWindows
    /\ LET key == next_key
           stored == [k \in DOMAIN windows \cup {key} |->
                         IF k = key THEN Window(rect) ELSE windows[k]]
       IN /\ slots' = slots_after_insert
          /\ free_head' = free_head_after_insert
          /\ windows' = stored
          /\ root' = root_after_insert(key)
          /\ IF is_none(root)
             THEN /\ result' = [op |-> "insert", rect |-> rect, ret |-> Ok(key)]
                  /\ history' = Append(history, [key |-> key, rect |-> rect, ok |-> TRUE])
                  /\ UNCHANGED stepVars
             ELSE IF intersects(rect, stored[root.val].rect)
             THEN /\ result' = [op |-> "insert", rect |-> rect, ret |-> Err(OutsideRoot)]
                  /\ history' = Append(history, [key |-> key, rect |-> rect, ok |-> FALSE])
                  /\ UNCHANGED stepVars
             ELSE /\ pc' = "resolve"
                  /\ call' = Some([key |-> key, rect |-> rect])
                  /\ frames' = <<new_frame(<<root.val>>, rect)>>
                  /\ UNCHANGED <<result, history, returned, current_rects, taken_rects>>
    /\ UNCHANGED rectVars

\* The stack after one iteration of the worklist loop of the innermost
\* call: a fragment is removed; if a root matches it, the call on that
\* root's children is entered, otherwise the fragment is left over.
frames_after_step ==
    LET n == Len(frames)
        top == frames[n]
        rect == top.rectangles[1]
        rest == swap_remove_first(top.rectangles)
        intersect == find_map(windows, top.roots, rect)
    IN IF is_some(intersect)
       THEN [frames EXCEPT ![n] =
                [top EXCEPT !.rectangles = rest,
                            !.pending = Some([matched_root |-> intersect.val.matched_root,
                                              remainder |-> intersect.val.remainder])]]
            \o <<new_frame(windows[intersect.val.matched_root].children,
                           intersect.val.intersection)>>
       ELSE [frames EXCEPT ![n] =
                [top EXCEPT !.rectangles = rest, !.leftovers = TRUE]]

\* "while !rectangles.is_empty()" in the innermost call.
worklist_nonempty ==
    pc = "resolve" /\ frames # <<>> /\ frames[Len(frames)].rectangles # <<>>

worklist_empty ==
    pc = "resolve" /\ frames # <<>> /\ frames[Len(frames)].rectangles = <<>>

resolve_step ==
    /\ worklist_nonempty
    /\ frames' = frames_after_step
    /\ UNCHANGED <<pc, call, returned, current_rects, taken_rects>>
    /\ UNCHANGED tableVars
    /\ UNCHANGED rectVars

\* What the innermost call returns once its worklist is empty.
frame_out(top) ==
    [roots |-> top.roots, rect |-> top.rect,
     windows |-> dedup(sort_unstable(top.windows)), leftovers |-> top.leftovers]

\* The calling frame after the call it waited for returned out.
caller_after_return(caller, out) ==
    [caller EXCEPT
        !.windows = @ \o out.windows \o
            (IF out.leftovers THEN <<caller.pending.val.matched_root>> ELSE <<>>),
        !.rectangles = @ \o caller.pending.val.remainder,
        !.pending = None]

\* The innermost call returns to the call that made it.
resolve_return ==
    /\ worklist_empty
    /\ Len(frames) > 1
    /\ returned' = Some(frame_out(frames[Len(frames)]))
    /\ frames' = SubSeq(frames, 1, Len(frames) - 2) \o
                    <<caller_after_return(frames[Len(frames) - 1],
                                          frame_out(frames[Len(frames)]))>>
    /\ UNCHANGED <<pc, call, current_rects, taken_rects>>
    /\ UNCHANGED tableVars
    /\ UNCHANGED rectVars

\* The outermost call returns to insert, which sets the children and enters
\* its last loop with current_rects = [rect], current_windows = [root].
resolve_done ==
    /\ worklist_empty
    /\ Len(frames) = 1
    /\ returned' = Some(frame_out(frames[1]))
    /\ frames' = <<>>
    /\ windows' = set_children(windows, frame_out(frames[1]).windows, call.val.key)
    /\ current_rects' = <<call.val.rect>>
    /\ pc' = "post"
    /\ UNCHANGED <<slots, free_head, root, result, history, call, taken_rects>>
    /\ UNCHANGED rectVars

\* "while !current_rects.is_empty()": the rectangles are taken.
post_outer ==
    /\ pc = "post"
    /\ current_rects # <<>>
    /\ taken_rects' = current_rects
    /\ current_rects' = current_rects_after_take(current_rects)
    /\ pc' = "drain"
    /\ UNCHANGED <<call, frames, returned>>
    /\ UNCHANGED tableVars
    /\ UNCHANGED rectVars

\* "while !taken_rects.is_empty()": one rectangle is removed and split
\* against the windows; nothing is written.
post_inner ==
    /\ pc = "drain"
    /\ taken_rects # <<>>
    /\ taken_rects' = swap_remove_first(taken_rects)
    /\ UNCHANGED <<pc, call, frames, returned, current_rects>>
    /\ UNCHANGED tableVars
    /\ UNCHANGED rectVars

post_inner_exit ==
    /\ pc = "drain"
    /\ taken_rects = <<>>
    /\ pc' = "post"
    /\ UNCHANGED <<call, frames, returned, current_rects, taken_rects>>
    /\ UNCHANGED tableVars
    /\ UNCHANGED rectVars

\* The outer loop exits and insert returns Ok(key).
insert_return ==
    /\ pc = "post"
    /\ current_rects = <<>>
    /\ pc' = "idle"
    /\ result' = [op |-> "insert", rect |-> call.val.rect, ret |-> Ok(call.val.key)]
    /\ history' = Append(history, [key |-> call.val.key, rect |-> call.val.rect, ok |-> TRUE])
    /\ call' = None
    /\ UNCHANGED <<slots, free_head, windows, root>>
    /\ UNCHANGED <<frames, returned, current_rects, taken_rects>>
    /\ UNCHANGED rectVars

\* The steps of a running insert.
Run ==
    \/ resolve_step
    \/ resolve_return
    \/ resolve_done
    \/ post_outer
    \/ post_inner
    \/ post_inner_exit
    \/ insert_return

NextSteps ==
    \/ \E rect \in Rects : insert_begin(rect)
    \/ Run

\* A running insert can take a step: the guards of the disjuncts of Run.
can_run ==
    \/ worklist_nonempty
    \/ worklist_empty /\ Len(frames) >= 1
    \/ pc = "post"
    \/ pc = "drain"

SpecSteps == Init /\ [][NextSteps]_vars

(***************************************************************************)
(* Vocabulary of the properties                                            *)
(***************************************************************************)
\* The unit cells of the grid, each named by its top-left corner.
Cells == (0..(MaxCoord - 1)) \X (0..(MaxCoord - 1))

\* Rectangle q covers unit cell c.
covers(q, c) ==
    /\ q.left <= c[1] /\ c[1] < q.right
    /\ q.top <= c[2] /\ c[2] < q.bottom

\* Two rectangles share positive area.
share_area(a, b) == \E c \in Cells : covers(a, c) /\ covers(b, c)

\* The geometric intersection of two rectangles that share area.
common_rect(a, b) ==
    Rectangle(max(a.left, b.left), max(a.top, b.top),
              min(a.right, b.right), min(a.bottom, b.bottom))

elems(v) == { v[i] : i \in 1..Len(v) }

\* The step just taken returned from insert.
inserted == result'.op = "insert"

\* The number of inserts since the last clear that returned Ok.
ok_inserts == Cardinality({ i \in 1..Len(history) : history[i].ok })

(***************************************************************************)
(* Rectangle::intersection, checked under SpecRect                         *)
(***************************************************************************)
\* C1: when A and B share area, intersection(A, B) returns an overlap and
\* remainders such that every unit cell of A lies in exactly one returned
\* piece and no piece covers a cell outside A.
C1_PartitionLaw ==
    (is_some(splitOut) /\ share_area(selfRect, otherRect)) =>
        /\ is_some(splitOut.val)
        /\ LET pieces == <<splitOut.val.val.rect>> \o splitOut.val.val.remainder
           IN \A c \in Cells :
                  Cardinality({ i \in 1..Len(pieces) : covers(pieces[i], c) })
                      = (IF covers(selfRect, c) THEN 1 ELSE 0)

\* C2: intersection(A, B) returns None if and only if intersects(A, B) is
\* false: None for disjoint or merely touching rectangles, Some for
\* rectangles sharing area.
C2_NoneIffNoOverlap ==
    (is_some(splitOut) /\ selfRect \in Rects /\ otherRect \in Rects) =>
        /\ is_none(splitOut.val) <=> ~intersects(selfRect, otherRect)
        /\ is_none(splitOut.val) <=> ~share_area(selfRect, otherRect)

\* C3: when A and B share area, the overlap rectangle intersection(A, B)
\* returns is (max of lefts, max of tops, min of rights, min of bottoms).
C3_OverlapIsCommonRect ==
    (is_some(splitOut) /\ share_area(selfRect, otherRect)) =>
        /\ is_some(splitOut.val)
        /\ splitOut.val.val.rect = common_rect(selfRect, otherRect)

(***************************************************************************)
(* WindowTable, checked under Spec                                         *)
(***************************************************************************)
\* C4: insert on an empty table (new, or just cleared) returns Ok, the key
\* it returns is root(), and that window has no parents and no children.
C4_FirstInsertIsRoot ==
    [][(DOMAIN windows = {} /\ inserted) =>
          /\ result'.ret.tag = "Ok"
          /\ root' = Some(result'.ret.val)
          /\ result'.ret.val \in DOMAIN windows'
          /\ windows'[result'.ret.val].parents = <<>>
          /\ windows'[result'.ret.val].children = <<>>]_vars

\* C4 happens: a first insert into a new table, and one into a cleared table.
C4_Witness ==
    /\ result.op = "insert"
    /\ Len(history) = 1
    /\ result.ret.tag = "Ok"
    /\ result.ret.val.version > 1

\* C5: on a non-empty table, insert of a rectangle sharing no area with the
\* root's returns Err(OutsideRoot) and leaves the length of iter() as it was.
C5_OutsideRootRejected ==
    [][(is_some(root) /\ inserted /\ ~share_area(result'.rect, windows[root.val].rect)) =>
          /\ result'.ret = Err(OutsideRoot)
          /\ Len(iter') = Len(iter)]_vars

\* C6: on a table holding only the root, insert of a rectangle sharing area
\* with the root's returns Ok(k); then k is among root's children and k's
\* parents are exactly {root}.
C6_OverlappingRootWired ==
    [][(is_some(root) /\ DOMAIN windows = {root.val} /\ inserted
            /\ share_area(result'.rect, windows[root.val].rect)) =>
          /\ result'.ret.tag = "Ok"
          /\ result'.ret.val \in elems(windows'[root.val].children)
          /\ elems(windows'[result'.ret.val].parents) = {root.val}]_vars

\* C7: edges are reciprocal: B is among A's children if and only if A is
\* among B's parents.
C7_EdgesReciprocal ==
    \A a \in DOMAIN windows : \A b \in DOMAIN windows :
        b \in elems(windows[a].children) <=> a \in elems(windows[b].parents)

\* C8: a window whose overlap with the inserted rectangle is wholly covered
\* by its own children is not wired to the new window.  With the root over
\* the whole grid and A in its top-left corner already inserted, inserting B
\* inside A makes B a child of A only: not a child of root, root no parent of B.
C8_rect_root == Rectangle(0, 0, MaxCoord, MaxCoord)
C8_rect_a == Rectangle(0, 0, MaxCoord - 1, MaxCoord - 1)
C8_rect_b == Rectangle(0, 0, 1, 1)

C8_ShadowedNotWired ==
    /\ [][(inserted /\ result'.ret.tag = "Ok") =>
            \A w \in DOMAIN windows :
                (/\ share_area(windows[w].rect, result'.rect)
                 /\ \A c \in Cells :
                        (covers(windows[w].rect, c) /\ covers(result'.rect, c)) =>
                            \E k \in elems(windows[w].children) : covers(windows[k].rect, c))
                => /\ result'.ret.val \notin elems(windows'[w].children)
                   /\ w \notin elems(windows'[result'.ret.val].parents)]_vars
    /\ []((/\ Len(history) = 3
           /\ history[1].rect = C8_rect_root
           /\ history[2].rect = C8_rect_a
           /\ history[3].rect = C8_rect_b) =>
              /\ \A i \in 1..3 : history[i].ok
              /\ history[3].key \in elems(windows[history[2].key].children)
              /\ history[3].key \notin elems(windows[history[1].key].children)
              /\ history[1].key \notin elems(windows[history[3].key].parents))

\* C9: the table holds no window if and only if root() is None; a root is
\* the first window inserted since the table was new or cleared, and every
\* call but clear leaves root() as it was.
C9_RootLifecycle ==
    /\ [](DOMAIN windows = {} <=> is_none(root))
    /\ [](is_some(root) => (history # <<>> /\ root.val = history[1].key))
    /\ [][(is_some(root) /\ result'.op # "clear") => root' = root]_vars

\* C9 happens: a root has outlived a failed and a successful later insert.
C9_Witness ==
    /\ is_some(root)
    /\ \E i \in 2..Len(history) : history[i].ok
    /\ \E i \in 2..Len(history) : ~history[i].ok
    /\ root.val.version > 1

\* C10: the length of iter() is the number of inserts that returned Ok since
\* the table was new or last cleared.
C10_IterCountsOkInserts ==
    Len(iter) = ok_inserts

(***************************************************************************)
(* Further properties of the WindowTable, checked under Spec               *)
(***************************************************************************)
\* C11: right after clear, root() is None and iter() yields no pair.
C11_ClearEmpties ==
    result.op = "clear" => (is_none(root) /\ Len(iter) = 0)

\* C11 happens: a table that held several windows has been cleared.
C11_Witness ==
    /\ result.op = "clear"
    /\ Len(slots) >= 2

\* C12: every parent/child edge joins two windows whose rectangles share area.
C12_EdgesShareArea ==
    \A p \in DOMAIN windows :
        /\ \A c \in elems(windows[p].children) :
               share_area(windows[p].rect, windows[c].rect)
        /\ \A q \in elems(windows[p].parents) :
               share_area(windows[p].rect, windows[q].rect)

\* The place of a window among the inserts since the last clear.
pos(k) == CHOOSE i \in 1..Len(history) : history[i].key = k

\* The windows reachable from the set S along child edges, S included.
RECURSIVE descendants(_)
descendants(S) ==
    LET more == S \cup UNION { elems(windows[k].children) : k \in S }
    IN IF more = S THEN S ELSE descendants(more)

\* C15: the graph is acyclic: no window is reachable from itself along child
\* edges, no window is its own child or parent, and every child edge goes
\* from a window inserted earlier to one inserted later.
C15_Acyclic ==
    \A p \in DOMAIN windows :
        /\ \A c \in elems(windows[p].children) :
               /\ c \in DOMAIN windows
               /\ c # p
               /\ pos(p) < pos(c)
               /\ p \notin descendants({c})
        /\ \A q \in elems(windows[p].parents) :
               /\ q \in DOMAIN windows
               /\ q # p
               /\ pos(q) < pos(p)

\* C15 happens: a chain of two child edges exists.
C15_Witness ==
    \E a \in DOMAIN windows : \E b \in DOMAIN windows : \E c \in DOMAIN windows :
        /\ b \in elems(windows[a].children)
        /\ c \in elems(windows[b].children)

no_repeats(v) == \A i \in 1..Len(v) : \A j \in 1..Len(v) : v[i] = v[j] => i = j

\* C18: no window's children and no window's parents list a key twice.
C18_NoRepeatedEdge ==
    \A k \in DOMAIN windows :
        no_repeats(windows[k].children) /\ no_repeats(windows[k].parents)

\* C18 happens: the last insert was wired after its rectangle was split into
\* several fragments, each of which the resolver matched against the root.
C18_Witness ==
    /\ result.op = "insert"
    /\ Len(history) >= 2
    /\ result.ret.tag = "Ok"
    /\ is_some(intersection(result.rect, windows[root.val].rect))
    /\ intersection(result.rect, windows[root.val].rect).val.remainder # <<>>
    /\ result.ret.val \in elems(windows[root.val].children)

\* C19: an insert that returns Err(OutsideRoot) leaves root(), every window
\* that was live, and the pairs iter() yields as they were.
C19_FailedInsertFrame ==
    [][(inserted /\ result'.ret = Err(OutsideRoot)) =>
          /\ root' = root
          /\ \A k \in DOMAIN windows :
                 k \in DOMAIN windows' /\ windows'[k] = windows[k]
          /\ elems(iter') = elems(iter)]_vars

\* C20: the insert that follows clear returns Ok whatever its rectangle, its
\* key is the new root and has no edges; from then on the outcome of an
\* insert is decided by whether its rectangle shares area with the new
\* root's rectangle.
C20_ClearRestartsLifecycle ==
    /\ [][(result.op = "clear" /\ inserted) =>
            /\ result'.ret.tag = "Ok"
            /\ root' = Some(result'.ret.val)
            /\ windows'[result'.ret.val].parents = <<>>
            /\ windows'[result'.ret.val].children = <<>>
            /\ \A k \in DOMAIN windows' :
                   result'.ret.val \notin elems(windows'[k].children)]_vars
    /\ []((is_some(root) /\ history # <<>>) =>
            /\ windows[root.val].rect = history[1].rect
            /\ \A i \in 2..Len(history) : \A j \in 2..Len(history) :
                   (share_area(history[i].rect, history[1].rect)
                        = share_area(history[j].rect, history[1].rect))
                   => history[i].ok = history[j].ok)

\* C20 happens: after a clear, a new root and two later inserts, one sharing
\* area with the new root and one not.
C20_Witness ==
    /\ is_some(root)
    /\ root.val.version > 1
    /\ Len(history) = 3
    /\ share_area(history[2].rect, history[1].rect)
    /\ ~share_area(history[3].rect, history[1].rect)

sides_beyond(a, b) ==
    Cardinality({ side \in {"top", "bottom", "left", "right"} :
        \/ side = "top" /\ a.top < b.top
        \/ side = "bottom" /\ a.bottom > b.bottom
        \/ side = "left" /\ a.left < b.left
        \/ side = "right" /\ a.right > b.right })

\* C14: when A and B share area, intersection(A, B) returns as many
\* remainders as A has sides strictly beyond B, each of positive area.
C14_RemainderCount ==
    (is_some(splitOut) /\ share_area(selfRect, otherRect)) =>
        /\ is_some(splitOut.val)
        /\ Len(splitOut.val.val.remainder) = sides_beyond(selfRect, otherRect)
        /\ \A i \in 1..Len(splitOut.val.val.remainder) :
               splitOut.val.val.remainder[i] \in Rects

(***************************************************************************)
(* The resolver and insert's loops, checked under SpecSteps                *)
(***************************************************************************)
\* Rectangle::area, for rectangles with left <= right and top <= bottom.
area(q) == (q.right - q.left) * (q.bottom - q.top)

\* The longest chain of child edges below a window, the window counted.
RECURSIVE height(_)
height(k) ==
    LET below == { height(windows[k].children[i]) : i \in 1..Len(windows[k].children) }
    IN 1 + (IF below = {} THEN 0 ELSE CHOOSE h \in below : \A g \in below : g <= h)

\* The deepest recursion a call of intersections on these roots can reach.
level(roots) ==
    LET hs == { height(roots[i]) : i \in 1..Len(roots) }
    IN IF hs = {} THEN 0 ELSE CHOOSE h \in hs : \A g \in hs : g <= h

\* The work a list of fragments stands for in a call on these roots.
RECURSIVE total_area(_)
total_area(v) == IF v = <<>> THEN 0 ELSE area(Head(v)) + total_area(Tail(v))

fragment_work(v, roots) == (1 + 3 * level(roots)) * total_area(v)

\* The work left in one call: its worklist, the remainder it will get back
\* from the call it is waiting for, and its own return.
frame_work(f) ==
    1 + fragment_work(f.rectangles, f.roots)
      + (IF is_some(f.pending) THEN fragment_work(f.pending.val.remainder, f.roots) ELSE 0)

RECURSIVE stack_work(_)
stack_work(fs) == IF fs = <<>> THEN 0 ELSE frame_work(Head(fs)) + stack_work(Tail(fs))

\* A measure of the work a running insert has left: zero when none runs.
variant ==
    IF pc = "idle" THEN 0
    ELSE 1 + stack_work(frames)
           + (IF pc = "resolve" THEN 3 ELSE 3 * Len(current_rects))
           + Len(taken_rects)
           + (IF pc = "drain" THEN 1 ELSE 0)

\* C16: every insert that has been called returns after finitely many
\* steps: while it runs a step is always possible, and every step (an
\* iteration of a worklist loop, a return of intersections, an iteration of
\* the loops over current_rects and taken_rects) lowers a natural-number
\* measure of the work left, so each worklist empties, the recursion bottoms
\* out and the last loop exits.
C16_InsertReturns ==
    /\ [](pc # "idle" => can_run)
    /\ [](variant >= 0)
    /\ [][pc # "idle" => variant' < variant]_vars

\* C16 happens: the resolver is three calls deep.
C16_Witness ==
    /\ pc = "resolve"
    /\ Len(frames) >= 3

\* Some unit cell of q is covered by none of the windows in roots.
uncovered(q, roots) ==
    \E c \in Cells :
        covers(q, c) /\ \A i \in 1..Len(roots) : ~covers(windows[roots[i]].rect, c)

\* C17: the leftover flag a call of intersections returns is true if and
\* only if part of its query rectangle is covered by none of its candidates.
C17_LeftoverIffUncovered ==
    is_some(returned) =>
        (returned.val.leftovers <=> uncovered(returned.val.rect, returned.val.roots))

====
